---- MODULE Spec2Model ----
(***************************************************************************)
(* A model of the EasyCal utility module (src/src/utils.js).               *)
(*                                                                         *)
(* The module is a set of free functions.  The state of the model is one   *)
(* call in progress: which function was called, with which arguments, the  *)
(* locals of the one function that loops (generateTimeSlots) and the value *)
(* returned or the error thrown.  The host's time zone is part of the      *)
(* state because the Date methods the functions use read it.               *)
(*                                                                         *)
(* Strings are sequences of one-character strings; a Date is the number of *)
(* hours since 1970-01-01T00:00Z (the inputs are drawn on whole hours).    *)
(***************************************************************************)
EXTENDS Integers, Sequences, FiniteSets, TLC

VARIABLES tz,              \* the host's offset from UTC, in hours (local = UTC + tz)
          pc,              \* "idle" | "loop" | "done"
          call,            \* the function called
          args,            \* its arguments
          ret,             \* what it returned or threw
          slots,           \* generateTimeSlots: const slots = []
          currentMinutes,  \* generateTimeSlots: let currentMinutes
          closeMinutes,    \* generateTimeSlots: const closeMinutes
          startDate,       \* getStatsForPeriod: let startDate
          heap             \* the objects (Dates, arrays, records) the call can reach:
                           \* the caller's arguments first, then the ones it creates

vars == <<tz, pc, call, args, ret, slots, currentMinutes, closeMinutes, startDate, heap>>

(***************************************************************************)
(* Bounds of the model.                                                    *)
(***************************************************************************)
\* the while loop of generateTimeSlots is followed for at most this many pushes
MaxSlots == 100
\* the longest duration, in hours, given to calculateEndTime
MaxDurationHours == 26
\* the longest appointment list
MaxAppts == 3
\* the largest step, either way, given to navigateDate
MaxStep == 2
\* entries of a working-hours array
MaxHours == 3
\* characters of a name
MaxNameLen == 5

(***************************************************************************)
(* JavaScript numbers and strings.                                         *)
(***************************************************************************)
Digits == <<"0", "1", "2", "3", "4", "5", "6", "7", "8", "9">>

DigitValue(c) == CHOOSE d \in 0..9 : Digits[d + 1] = c

\* a % b of JavaScript: the remainder has the sign of the dividend
JSRem(a, b) == IF a >= 0 THEN a % b ELSE 0 - ((0 - a) % b)

\* Math.floor(a / b) for b > 0
JSFloorDiv(a, b) == a \div b

RECURSIVE NatToString(_)
NatToString(n) ==
    IF n < 10 THEN <<Digits[n + 1]>>
    ELSE NatToString(n \div 10) \o <<Digits[(n % 10) + 1]>>

\* Number.prototype.toString() of an integer
NumToString(n) == IF n < 0 THEN <<"-">> \o NatToString(0 - n) ELSE NatToString(n)

RECURSIVE PadStart(_, _, _)
\* String.prototype.padStart(len, c)
PadStart(s, len, c) == IF Len(s) >= len THEN s ELSE PadStart(<<c>> \o s, len, c)

RECURSIVE DigitsToNat(_)
DigitsToNat(s) ==
    IF s = <<>> THEN 0
    ELSE 10 * DigitsToNat(SubSeq(s, 1, Len(s) - 1)) + DigitValue(s[Len(s)])

\* Number(s) for a string of decimal digits with an optional leading minus
ToNumber(s) ==
    IF s # <<>> /\ s[1] = "-" THEN 0 - DigitsToNat(Tail(s)) ELSE DigitsToNat(s)

RECURSIVE SplitFrom(_, _, _)
SplitFrom(s, sep, cur) ==
    IF s = <<>> THEN <<cur>>
    ELSE IF s[1] = sep THEN <<cur>> \o SplitFrom(Tail(s), sep, <<>>)
    ELSE SplitFrom(Tail(s), sep, Append(cur, s[1]))

\* String.prototype.split(sep) for a one-character separator
Split(s, sep) == SplitFrom(s, sep, <<>>)

\* `${h.toString().padStart(2, '0')}:${m.toString().padStart(2, '0')}`
FormatHHMM(h, m) ==
    PadStart(NumToString(h), 2, "0") \o <<":">> \o PadStart(NumToString(m), 2, "0")

\* const [hours, minutes] = s.split(':').map(Number); hours * 60 + minutes
ParseMinutes(s) ==
    LET parts == Split(s, ":")
    IN  ToNumber(parts[1]) * 60 + ToNumber(parts[2])

(***************************************************************************)
(* JavaScript Date.  A Date holds a time value: here the hours since       *)
(* 1970-01-01T00:00Z.  The get and set methods work on the local time,     *)
(* the time value plus the host's offset tz; toISOString and the parse of  *)
(* a date-only string work on UTC.                                         *)
(***************************************************************************)
IsLeapYear(y) == (y % 4 = 0 /\ y % 100 # 0) \/ y % 400 = 0

LeapDaysBefore(y) == ((y - 1) \div 4) - ((y - 1) \div 100) + ((y - 1) \div 400)

\* DayFromYear(y): the day number of January 1st of year y
DayFromYear(y) == 365 * (y - 1970) + LeapDaysBefore(y) - LeapDaysBefore(1970)

CumulativeDays == <<0, 31, 59, 90, 120, 151, 181, 212, 243, 273, 304, 334, 365>>

\* the days of year y before its month m (0 = January; 12 = the whole year)
DaysBeforeMonth(y, m) == CumulativeDays[m + 1] + (IF m >= 2 /\ IsLeapYear(y) THEN 1 ELSE 0)

\* MakeDay(year, month, date): a month outside 0..11 carries into the year, a
\* date outside the month carries into the days
MakeDay(year, month, date) ==
    LET ym == year + (month \div 12)
        mn == month % 12
    IN  DayFromYear(ym) + DaysBeforeMonth(ym, mn) + date - 1

YearFromDay(day) ==
    CHOOSE y \in (1970 + (day \div 366))..(1971 + (day \div 365)) :
        DayFromYear(y) <= day /\ day < DayFromYear(y + 1)

MonthFromDay(day) ==
    LET y == YearFromDay(day)
        n == day - DayFromYear(y)
    IN  CHOOSE m \in 0..11 : DaysBeforeMonth(y, m) <= n /\ n < DaysBeforeMonth(y, m + 1)

DateFromDay(day) ==
    LET y == YearFromDay(day)
    IN  day - DayFromYear(y) - DaysBeforeMonth(y, MonthFromDay(day)) + 1

\* LocalTime(t) and its inverse UTC(t), for a host at a fixed offset
LocalTime(t) == t + tz
UTCTime(t)   == t - tz

Day(t)         == t \div 24
HourFromTime(t) == t % 24

getFullYear(d) == YearFromDay(Day(LocalTime(d)))
getMonth(d)    == MonthFromDay(Day(LocalTime(d)))
getDate(d)     == DateFromDay(Day(LocalTime(d)))
getHours(d)    == HourFromTime(LocalTime(d))

\* d.setDate(date): the local year, month and time of day stay
setDate(d, date) ==
    UTCTime(MakeDay(getFullYear(d), getMonth(d), date) * 24 + getHours(d))

\* d.setMonth(month): the local year, date and time of day stay
setMonth(d, month) ==
    UTCTime(MakeDay(getFullYear(d), month, getDate(d)) * 24 + getHours(d))

\* d.setFullYear(year): the local month, date and time of day stay
setFullYear(d, year) ==
    UTCTime(MakeDay(year, getMonth(d), getDate(d)) * 24 + getHours(d))

\* d.setHours(0, 0, 0, 0): the local midnight of the local day
setHoursZero(d) == UTCTime(Day(LocalTime(d)) * 24)

\* d.toISOString(): the UTC fields
toISOString(d) ==
    PadStart(NumToString(YearFromDay(Day(d))), 4, "0") \o <<"-">>
        \o PadStart(NumToString(MonthFromDay(Day(d)) + 1), 2, "0") \o <<"-">>
        \o PadStart(NumToString(DateFromDay(Day(d))), 2, "0") \o <<"T">>
        \o PadStart(NumToString(HourFromTime(d)), 2, "0")
        \o <<":", "0", "0", ":", "0", "0", ".", "0", "0", "0", "Z">>

\* date.toISOString().split('T')[0]
ISODatePart(d) == Split(toISOString(d), "T")[1]

\* new Date('YYYY-MM-DD'): a date-only string is midnight UTC
ParseDate(s) ==
    LET parts == Split(s, "-")
    IN  MakeDay(ToNumber(parts[1]), ToNumber(parts[2]) - 1, ToNumber(parts[3])) * 24

(***************************************************************************)
(* getStatsForPeriod                                                       *)
(***************************************************************************)
\* a faulty variant: an unknown period falls through with the start left at the reference
WindowStartNoThrow(period, referenceDate) ==
    CASE period = "today" -> [kind |-> "ok", startDate |-> setHoursZero(referenceDate)]
      [] period = "week" ->
           [kind |-> "ok", startDate |-> setDate(referenceDate, getDate(referenceDate) - 7)]
      [] period = "month" ->
           [kind |-> "ok", startDate |-> setMonth(referenceDate, getMonth(referenceDate) - 1)]
      [] period = "year" ->
           [kind |-> "ok",
            startDate |-> setFullYear(referenceDate, getFullYear(referenceDate) - 1)]
      [] OTHER -> [kind |-> "ok", startDate |-> referenceDate]

\* a faulty variant: the week window starts 7 days after the reference
WindowStartWeekForward(period, referenceDate) ==
    CASE period = "today" -> [kind |-> "ok", startDate |-> setHoursZero(referenceDate)]
      [] period = "week" ->
           [kind |-> "ok", startDate |-> setDate(referenceDate, getDate(referenceDate) + 7)]
      [] period = "month" ->
           [kind |-> "ok", startDate |-> setMonth(referenceDate, getMonth(referenceDate) - 1)]
      [] period = "year" ->
           [kind |-> "ok",
            startDate |-> setFullYear(referenceDate, getFullYear(referenceDate) - 1)]
      [] OTHER -> [kind |-> "throw", message |-> <<"Invalid period: ", period>>]

\* the switch on period, lines 51-70; now and startDate are copies of referenceDate
WindowStart(period, referenceDate) ==
    CASE period = "today" -> [kind |-> "ok", startDate |-> setHoursZero(referenceDate)]
      [] period = "week" ->
           [kind |-> "ok", startDate |-> setDate(referenceDate, getDate(referenceDate) - 7)]
      [] period = "month" ->
           [kind |-> "ok", startDate |-> setMonth(referenceDate, getMonth(referenceDate) - 1)]
      [] period = "year" ->
           [kind |-> "ok",
            startDate |-> setFullYear(referenceDate, getFullYear(referenceDate) - 1)]
      [] OTHER -> [kind |-> "throw", message |-> <<"Invalid period: ", period>>]

\* a faulty variant: cancelled appointments are counted
InPeriodWithCancelled(apt, start) == ParseDate(apt.date) >= start

\* the filter's predicate, lines 73-74
InPeriod(apt, start) == ParseDate(apt.date) >= start /\ apt.status # "cancelled"

RECURSIVE FilterPeriod(_, _)
\* appointments.filter(...), lines 72-75
FilterPeriod(appointments, start) ==
    IF appointments = <<>> THEN <<>>
    ELSE IF InPeriod(Head(appointments), start)
         THEN <<Head(appointments)>> \o FilterPeriod(Tail(appointments), start)
         ELSE FilterPeriod(Tail(appointments), start)

RECURSIVE SumPrice(_)
\* reduce((sum, apt) => sum + apt.price, 0), line 77
SumPrice(appointments) ==
    IF appointments = <<>> THEN 0
    ELSE Head(appointments).price + SumPrice(Tail(appointments))

RECURSIVE CountCompleted(_)
\* filter(apt => apt.status === 'completed').length, line 79
CountCompleted(appointments) ==
    IF appointments = <<>> THEN 0
    ELSE (IF Head(appointments).status = "completed" THEN 1 ELSE 0)
             + CountCompleted(Tail(appointments))

\* Math.round(num / den) for den > 0: the nearest integer, a half going up
MathRound(num, den) == (2 * num + den) \div (2 * den)

\* line 80
AvgIncome(totalIncome, totalAppointments) ==
    IF totalAppointments > 0 THEN MathRound(totalIncome, totalAppointments) ELSE 0

RECURSIVE Increment(_, _)
\* serviceCount[key] = (serviceCount[key] || 0) + 1: a new key goes last (service
\* names are names, not array indices, which an object would list first)
Increment(entries, key) ==
    IF entries = <<>> THEN <<[key |-> key, count |-> 1]>>
    ELSE IF Head(entries).key = key
         THEN <<[key |-> key, count |-> Head(entries).count + 1]>> \o Tail(entries)
         ELSE <<Head(entries)>> \o Increment(Tail(entries), key)

RECURSIVE ServiceCount(_, _)
\* the forEach of lines 82-85; Object.entries lists the keys in insertion order
ServiceCount(appointments, entries) ==
    IF appointments = <<>> THEN entries
    ELSE ServiceCount(Tail(appointments), Increment(entries, Head(appointments).service))

RECURSIVE InsertBeforeTies(_, _)
\* a faulty variant: an unstable sort, a later entry goes before its equals
InsertBeforeTies(sorted, e) ==
    IF sorted = <<>> THEN <<e>>
    ELSE IF Head(sorted).count > e.count
         THEN <<Head(sorted)>> \o InsertBeforeTies(Tail(sorted), e)
         ELSE <<e>> \o sorted

RECURSIVE InsertSorted(_, _)
\* Array.prototype.sort is stable: an entry goes after its equals
InsertSorted(sorted, e) ==
    IF sorted = <<>> THEN <<e>>
    ELSE IF Head(sorted).count >= e.count
         THEN <<Head(sorted)>> \o InsertSorted(Tail(sorted), e)
         ELSE <<e>> \o sorted

RECURSIVE SortByCount(_, _)
\* sort((a, b) => b[1] - a[1]), line 86
SortByCount(entries, sorted) ==
    IF entries = <<>> THEN sorted
    ELSE SortByCount(Tail(entries), InsertSorted(sorted, Head(entries)))

\* lines 86 and 97
PopularService(appointments) ==
    LET sorted == SortByCount(ServiceCount(appointments, <<>>), <<>>)
    IN  IF sorted = <<>> THEN "-" ELSE sorted[1].key

\* a faulty variant: the change is taken over the current income
IncomeChangeOverCurrent(totalIncome) ==
    IF totalIncome * 85 > 0
    THEN MathRound((totalIncome * 100 - totalIncome * 85) * 100, totalIncome * 100)
    ELSE 0

\* lines 89-90, in exact arithmetic: prevTotalIncome is (totalIncome * 85) / 100
IncomeChange(totalIncome) ==
    IF totalIncome * 85 > 0
    THEN MathRound((totalIncome * 100 - totalIncome * 85) * 100, totalIncome * 85)
    ELSE 0

\* lines 72-99
StatsResult(appointments, start) ==
    LET periodAppointments == FilterPeriod(appointments, start)
        totalIncome        == SumPrice(periodAppointments)
        totalAppointments  == Len(periodAppointments)
    IN  [totalIncome           |-> totalIncome,
         totalAppointments     |-> totalAppointments,
         completedAppointments |-> CountCompleted(periodAppointments),
         avgIncome             |-> AvgIncome(totalIncome, totalAppointments),
         popularService        |-> PopularService(periodAppointments),
         incomeChange          |-> IncomeChange(totalIncome)]

getStatsForPeriod(appointments, period, referenceDate) ==
    LET w == WindowStart(period, referenceDate)
    IN  IF w.kind = "throw" THEN [kind |-> "error", message |-> w.message]
        ELSE [kind |-> "value", value |-> StatsResult(appointments, w.startDate)]

\* getAppointmentsForDate, lines 109-112
getAppointmentsForDate(appointments, date) ==
    LET dateStr == ISODatePart(date)
    IN  SelectSeq(appointments, LAMBDA apt : apt.date = dateStr)

\* navigateDate, lines 248-258
navigateDate(currentDate, viewMode, direction) ==
    IF viewMode = "day" THEN setDate(currentDate, getDate(currentDate) + direction)
    ELSE IF viewMode = "week" THEN setDate(currentDate, getDate(currentDate) + direction * 7)
    ELSE setMonth(currentDate, getMonth(currentDate) + direction)

(***************************************************************************)
(* Objects.  A Date, an array and a record are objects: the heap is the    *)
(* sequence of their contents and a reference is an index into it.  A      *)
(* function that copies its argument writes to the copy; one that does not *)
(* writes to the caller's object.                                          *)
(***************************************************************************)
\* a faulty variant: the Date is not copied, the name is bound to the argument
NewDateAlias(h, ref) == [heap |-> h, ref |-> ref]

\* new Date(d): a new object with d's time value
NewDate(h, ref) == [heap |-> Append(h, h[ref]), ref |-> Len(h) + 1]

\* a new object with the contents given
NewObject(h, contents) == [heap |-> Append(h, contents), ref |-> Len(h) + 1]

\* a write to the object a reference names (a setter, an assignment to a slot)
Write(h, ref, contents) == [h EXCEPT ![ref] = contents]

\* getStatsForPeriod, lines 51-70: now and startDate are copies of referenceDate
\* (the caller's second object); only startDate is written
StatsHeap(h, period) ==
    LET now   == NewDate(h, 2)
        start == NewDate(now.heap, 2)
        w     == WindowStart(period, h[2])
    IN  IF w.kind = "throw" THEN start.heap
        ELSE IF period = "today"
        THEN LET again == NewDate(start.heap, now.ref)
             IN  Write(again.heap, again.ref, w.startDate)
        ELSE Write(start.heap, start.ref, w.startDate)

\* getAppointmentsForDate, lines 110-111: filter makes a new array
AppointmentsForDateHeap(h) == NewObject(h, getAppointmentsForDate(h[1], h[2])).heap

\* navigateDate, lines 249-257: the setters are called on the copy
NavigateDateHeap(h, viewMode, direction) ==
    LET newDate == NewDate(h, 1)
    IN  Write(newDate.heap, newDate.ref, navigateDate(h[1], viewMode, direction))

(***************************************************************************)
(* calculateEndTime                                                        *)
(***************************************************************************)
\* a faulty variant: the hour is not wrapped at 24
CalculateEndTimeNoWrap(startTime, duration) ==
    LET totalMinutes == ParseMinutes(startTime) + duration
    IN  FormatHHMM(JSFloorDiv(totalMinutes, 60), JSRem(totalMinutes, 60))

calculateEndTime(startTime, duration) ==
    LET totalMinutes == ParseMinutes(startTime) + duration
        endHours     == JSRem(JSFloorDiv(totalMinutes, 60), 24)
        endMinutes   == JSRem(totalMinutes, 60)
    IN  FormatHHMM(endHours, endMinutes)

(***************************************************************************)
(* The inputs.                                                             *)
(***************************************************************************)
TZOffsets == {-5, 0, 2}

\* HH:MM strings, written digit by digit
HourDigits   == {<<"0", "0">>, <<"0", "9">>, <<"1", "0">>, <<"2", "3">>}
MinuteDigits == {<<"0", "0">>, <<"1", "5">>, <<"5", "9">>}
TimeStrings  == {h \o <<":">> \o m : h \in HourDigits, m \in MinuteDigits}

Intervals == {-15, 0, 15, 30, 45, 60}

Durations == {0, 5, 20, 30, 40, 45} \cup {60 * k : k \in 1..MaxDurationHours}

\* Dates: every day of the leap year 2024, at three hours of the UTC day
RefDays     == {MakeDay(2024, 0, 1) + k : k \in 0..365}
RefHours    == {0, 12, 23}
AllRefDates == {d * 24 + h : d \in RefDays, h \in RefHours}

\* 2024-03-31T12:00Z
MarchRef == MakeDay(2024, 2, 31) * 24 + 12

Periods == {"today", "week", "month", "year", "invalid_period"}

\* Appointments around 2024-03-31, with the fields the functions read
AppointmentPool ==
    << [id |-> 1, date |-> <<"2", "0", "2", "4", "-", "0", "3", "-", "3", "1">>,
        status |-> "completed", price |-> 100, service |-> "A"],
       [id |-> 2, date |-> <<"2", "0", "2", "4", "-", "0", "4", "-", "0", "1">>,
        status |-> "confirmed", price |-> 70, service |-> "B"],
       [id |-> 3, date |-> <<"2", "0", "2", "4", "-", "0", "3", "-", "2", "5">>,
        status |-> "cancelled", price |-> 180, service |-> "B"],
       [id |-> 4, date |-> <<"2", "0", "2", "4", "-", "0", "3", "-", "2", "5">>,
        status |-> "completed", price |-> 130, service |-> "C"],
       [id |-> 5, date |-> <<"2", "0", "2", "4", "-", "0", "3", "-", "0", "1">>,
        status |-> "pending", price |-> 0, service |-> "C"],
       [id |-> 6, date |-> <<"2", "0", "2", "3", "-", "0", "3", "-", "3", "1">>,
        status |-> "completed", price |-> 101, service |-> "A"],
       [id |-> 7, date |-> <<"2", "0", "2", "4", "-", "0", "3", "-", "2", "4">>,
        status |-> "confirmed", price |-> 55, service |-> "B"] >>

Appointments == {AppointmentPool[i] : i \in DOMAIN AppointmentPool}

AppointmentLists == UNION {[1..n -> Appointments] : n \in 0..MaxAppts}

\* a list with a cancelled, an old and two recent appointments
MixedList ==
    <<AppointmentPool[3], AppointmentPool[6], AppointmentPool[1], AppointmentPool[7]>>

\* every reference date with one list, and every list with the March date
StatsInputs ==
    {<<MixedList, d>> : d \in AllRefDates}
        \cup {<<list, MarchRef>> : list \in AppointmentLists}

TargetDates == {MakeDay(2024, 2, d) * 24 + h : d \in {25, 31}, h \in RefHours}

NavDates  == {d * 24 + h : d \in RefDays, h \in {0, 23}}
ViewModes == {"day", "week", "month", "year"}
Steps     == (0 - MaxStep)..MaxStep

NoArgs == [none |-> TRUE]
NoRet  == [kind |-> "none"]

(***************************************************************************)
(* The calls.                                                              *)
(***************************************************************************)
Init ==
    /\ tz \in TZOffsets
    /\ pc = "idle"
    /\ call = "none"
    /\ args = NoArgs
    /\ ret = NoRet
    /\ slots = <<>>
    /\ currentMinutes = 0
    /\ closeMinutes = 0
    /\ startDate = 0
    /\ heap = <<>>

\* the caller drops the result; the next call starts from here
Return ==
    /\ pc = "done"
    /\ pc' = "idle"
    /\ call' = "none"
    /\ args' = NoArgs
    /\ ret' = NoRet
    /\ slots' = <<>>
    /\ currentMinutes' = 0
    /\ closeMinutes' = 0
    /\ startDate' = 0
    /\ heap' = <<>>
    /\ UNCHANGED tz

CallCalculateEndTime ==
    /\ pc = "idle"
    /\ \E startTime \in TimeStrings, duration \in Durations :
         /\ call' = "calculateEndTime"
         /\ args' = [startTime |-> startTime, duration |-> duration]
         /\ ret' = [kind |-> "value", value |-> calculateEndTime(startTime, duration)]
    /\ pc' = "done"
    /\ UNCHANGED <<tz, slots, currentMinutes, closeMinutes, startDate, heap>>

\* generateTimeSlots, lines 296-302: the parse of the two times
CallGenerateTimeSlots ==
    /\ pc = "idle"
    /\ \E openTime \in TimeStrings, closeTime \in TimeStrings, interval \in Intervals :
         /\ call' = "generateTimeSlots"
         /\ args' = [openTime |-> openTime, closeTime |-> closeTime, interval |-> interval]
         /\ currentMinutes' = ParseMinutes(openTime)
         /\ closeMinutes' = ParseMinutes(closeTime)
    /\ slots' = <<>>
    /\ pc' = "loop"
    /\ UNCHANGED <<tz, ret, startDate, heap>>

\* a faulty variant: the slot is written without padStart
SlotOfUnpadded(minutes) ==
    NumToString(JSFloorDiv(minutes, 60)) \o <<":">> \o NumToString(JSRem(minutes, 60))

\* the slot pushed by one turn of the loop, lines 305-307
SlotOf(minutes) == FormatHHMM(JSFloorDiv(minutes, 60), JSRem(minutes, 60))

\* a faulty variant: the close time is let in
LoopConditionInclusive(current, close) == current <= close

\* while (currentMinutes < closeMinutes), line 304
LoopCondition(current, close) == current < close

\* one turn of the loop, lines 304-309
LoopGenerateTimeSlots ==
    /\ pc = "loop"
    /\ LoopCondition(currentMinutes, closeMinutes)
    /\ Len(slots) < MaxSlots
    /\ slots' = Append(slots, SlotOf(currentMinutes))
    /\ currentMinutes' = currentMinutes + args.interval
    /\ UNCHANGED <<tz, pc, call, args, ret, closeMinutes, startDate, heap>>

\* the loop's exit and return slots, line 311
ReturnGenerateTimeSlots ==
    /\ pc = "loop"
    /\ ~LoopCondition(currentMinutes, closeMinutes)
    /\ ret' = [kind |-> "value", value |-> slots]
    /\ pc' = "done"
    /\ UNCHANGED <<tz, call, args, slots, currentMinutes, closeMinutes, startDate, heap>>

NextSlots ==
    \/ CallCalculateEndTime
    \/ CallGenerateTimeSlots
    \/ LoopGenerateTimeSlots
    \/ ReturnGenerateTimeSlots
    \/ Return

SpecSlots == Init /\ [][NextSlots]_vars

CallGetStatsForPeriod ==
    /\ pc = "idle"
    /\ \E in \in StatsInputs, period \in Periods :
         LET w == WindowStart(period, in[2])
         IN  /\ call' = "getStatsForPeriod"
             /\ args' = [appointments |-> in[1], period |-> period, referenceDate |-> in[2]]
             /\ startDate' = (IF w.kind = "ok" THEN w.startDate ELSE in[2])
             /\ ret' = getStatsForPeriod(in[1], period, in[2])
             /\ heap' = StatsHeap(<<in[1], in[2]>>, period)
    /\ pc' = "done"
    /\ UNCHANGED <<tz, slots, currentMinutes, closeMinutes>>

NextStats ==
    \/ CallGetStatsForPeriod
    \/ Return

SpecStats == Init /\ [][NextStats]_vars

CallGetAppointmentsForDate ==
    /\ pc = "idle"
    /\ \E appointments \in AppointmentLists, date \in TargetDates :
         /\ call' = "getAppointmentsForDate"
         /\ args' = [appointments |-> appointments, date |-> date]
         /\ ret' = [kind |-> "value", value |-> getAppointmentsForDate(appointments, date)]
         /\ heap' = AppointmentsForDateHeap(<<appointments, date>>)
    /\ pc' = "done"
    /\ UNCHANGED <<tz, slots, currentMinutes, closeMinutes, startDate>>

CallNavigateDate ==
    /\ pc = "idle"
    /\ \E currentDate \in NavDates, viewMode \in ViewModes, direction \in Steps :
         /\ call' = "navigateDate"
         /\ args' = [currentDate |-> currentDate, viewMode |-> viewMode,
                     direction |-> direction]
         /\ ret' = [kind |-> "value", value |-> navigateDate(currentDate, viewMode, direction)]
         /\ heap' = NavigateDateHeap(<<currentDate>>, viewMode, direction)
    /\ pc' = "done"
    /\ UNCHANGED <<tz, slots, currentMinutes, closeMinutes, startDate>>

NextDates ==
    \/ CallGetAppointmentsForDate
    \/ CallNavigateDate
    \/ Return

SpecDates == Init /\ [][NextDates]_vars

(***************************************************************************)
(* isPast                                                                  *)
(***************************************************************************)
\* new Date(year, month, day): the local midnight of that day
NewLocalDate(year, month, day) == UTCTime(MakeDay(year, month, day) * 24)

\* a faulty variant: today is compared with its time of day
IsPastNoNormalize(day, currentMonth, today) ==
    NewLocalDate(getFullYear(currentMonth), getMonth(currentMonth), day) < today

\* isPast, lines 160-165
isPast(day, currentMonth, today) ==
    NewLocalDate(getFullYear(currentMonth), getMonth(currentMonth), day)
        < setHoursZero(today)

\* the objects of isPast: date is new, todayNormalized is a copy of today (the
\* caller's second object) and setHours is called on it
IsPastHeap(h, day) ==
    LET date == NewObject(h, NewLocalDate(getFullYear(h[1]), getMonth(h[1]), day))
        todayNormalized == NewDate(date.heap, 2)
    IN  Write(todayNormalized.heap, todayNormalized.ref,
              setHoursZero(todayNormalized.heap[todayNormalized.ref]))

(***************************************************************************)
(* generateMockAppointments.  The names of clients and services are        *)
(* transliterated.                                                         *)
(***************************************************************************)
MockCount == 15

names ==
    <<"David Levi", "Moshe Cohen", "Avi Israeli", "Yossi Avraham",
      "Ron David", "Gil Shimon", "Amit Levi", "Noam Rozen">>

mockServices == <<"haircut", "haircut + beard", "beard trim", "hair colour">>

times == <<"09:00", "09:30", "10:00", "10:30", "11:00", "14:00", "15:00", "16:00">>

statuses == <<"confirmed", "confirmed", "confirmed", "completed", "pending">>

\* a faulty variant: four appointments a day
MockDayOffsetByFour(i) == JSFloorDiv(i, 4) - 2

\* Math.floor(i / 3) - 2, line 25
MockDayOffset(i) == JSFloorDiv(i, 3) - 2

\* the appointment pushed by turn i of the loop, lines 26-36
MockAppointment(i, date, today) ==
    [id          |-> i + 1,
     clientName  |-> names[(i % Len(names)) + 1],
     clientPhone |-> <<"0", "5", "2", "-">> \o NumToString(1000000 + i * 111111),
     service     |-> mockServices[(i % Len(mockServices)) + 1],
     date        |-> ISODatePart(date),
     time        |-> times[(i % Len(times)) + 1],
     duration    |-> <<40, 45, 20, 60>>[(i % 4) + 1],
     price       |-> <<100, 130, 70, 180>>[(i % 4) + 1],
     status      |-> IF i < 3 THEN statuses[(i % Len(statuses)) + 1]
                     ELSE IF date < today THEN "completed" ELSE "confirmed"]

RECURSIVE MockLoop(_, _, _, _)
\* the for loop, lines 22-37: date is a copy of today, moved by setDate
MockLoop(h, today, i, appointments) ==
    IF i >= MockCount THEN [heap |-> h, value |-> appointments]
    ELSE LET date  == NewDate(h, today)
             moved == Write(date.heap, date.ref,
                            setDate(date.heap[date.ref],
                                    getDate(date.heap[today]) + MockDayOffset(i)))
         IN  MockLoop(moved, today, i + 1,
                      Append(appointments, MockAppointment(i, moved[date.ref], moved[today])))

\* generateMockAppointments, lines 13-40; baseDate is the reference of the argument
generateMockAppointments(h, baseDate) ==
    LET today == NewDate(h, baseDate)
    IN  MockLoop(today.heap, today.ref, 0, <<>>)

(***************************************************************************)
(* JavaScript values that may be absent: null, undefined, a string (its    *)
(* characters), an object.                                                 *)
(***************************************************************************)
Null      == [type |-> "null"]
Undefined == [type |-> "undefined"]
Str(s)    == [type |-> "string", chars |-> s]
Object    == [type |-> "object"]

\* ToBoolean: null, undefined and the empty string are falsy
Truthy(v) ==
    CASE v.type \in {"null", "undefined"} -> FALSE
      [] v.type = "string" -> v.chars # <<>>
      [] OTHER -> TRUE

\* the class \s, as far as the inputs go
IsWhitespace(c) == c \in {" ", "\t", "\n"}

(***************************************************************************)
(* isValidPhone                                                            *)
(***************************************************************************)
\* phone.replace(/\s/g, ''), line 270
RemoveWhitespace(s) == SelectSeq(s, LAMBDA c : ~IsWhitespace(c))

\* the class [0-9]
DigitClass(c) == c \in {Digits[d] : d \in 1..10}

\* a faulty variant: the pattern without its end anchor
PhoneRegexUnanchored(s) ==
    /\ Len(s) >= 3
    /\ s[1] = "0"
    /\ s[2] = "5"
    /\ DigitClass(s[3])
    /\ LET rest == IF Len(s) >= 4 /\ s[4] = "-"
                   THEN SubSeq(s, 5, Len(s)) ELSE SubSeq(s, 4, Len(s))
       IN  /\ Len(rest) >= 7
           /\ \A i \in 1..7 : DigitClass(rest[i])

\* /^0[5][0-9][-]?[0-9]{7}$/.test(s), line 269: the pattern read left to right
PhoneRegex(s) ==
    /\ Len(s) >= 3
    /\ s[1] = "0"
    /\ s[2] = "5"
    /\ DigitClass(s[3])
    /\ LET rest == IF Len(s) >= 4 /\ s[4] = "-"
                   THEN SubSeq(s, 5, Len(s)) ELSE SubSeq(s, 4, Len(s))
       IN  /\ Len(rest) = 7
           /\ \A i \in 1..7 : DigitClass(rest[i])

\* isValidPhone, lines 266-271
isValidPhone(phone) ==
    IF ~Truthy(phone) THEN FALSE
    ELSE PhoneRegex(RemoveWhitespace(phone.chars))

(***************************************************************************)
(* canProceed                                                              *)
(***************************************************************************)
RECURSIVE TrimStart(_)
TrimStart(s) ==
    IF s # <<>> /\ IsWhitespace(Head(s)) THEN TrimStart(Tail(s)) ELSE s

RECURSIVE TrimEnd(_)
TrimEnd(s) ==
    IF s # <<>> /\ IsWhitespace(s[Len(s)]) THEN TrimEnd(SubSeq(s, 1, Len(s) - 1)) ELSE s

\* String.prototype.trim
Trim(s) == TrimEnd(TrimStart(s))

\* a faulty variant: step 1 without the trims
CanProceedNoTrim(step, formData) ==
    IF step = 1
    THEN Truthy(formData.clientName) /\ Truthy(formData.clientPhone)
    ELSE IF step = 2 THEN formData.selectedService # Null
    ELSE IF step = 3
    THEN Truthy(formData.selectedDate) /\ Truthy(formData.selectedTime)
    ELSE FALSE

\* canProceed, lines 179-186; a && b evaluates b only when a is truthy
canProceed(step, formData) ==
    IF step = 1
    THEN /\ Truthy(formData.clientName)
         /\ Truthy(Str(Trim(formData.clientName.chars)))
         /\ Truthy(formData.clientPhone)
         /\ Truthy(Str(Trim(formData.clientPhone.chars)))
    ELSE IF step = 2 THEN formData.selectedService # Null
    ELSE IF step = 3
    THEN Truthy(formData.selectedDate) /\ Truthy(formData.selectedTime)
    ELSE FALSE

(***************************************************************************)
(* getInitials                                                             *)
(***************************************************************************)
\* w => w[0]: undefined for the empty string, which join('') writes as nothing
FirstChar(w) == IF w = <<>> THEN <<>> ELSE <<w[1]>>

RECURSIVE JoinFirstChars(_)
\* .map(w => w[0]).join(''), line 237
JoinFirstChars(words) ==
    IF words = <<>> THEN <<>>
    ELSE FirstChar(Head(words)) \o JoinFirstChars(Tail(words))

\* s.slice(0, n)
SliceFromStart(s, n) == SubSeq(s, 1, IF Len(s) < n THEN Len(s) ELSE n)

\* getInitials, lines 235-238
getInitials(name) ==
    IF ~Truthy(name) THEN <<>>
    ELSE SliceFromStart(JoinFirstChars(Split(name.chars, " ")), 2)

(***************************************************************************)
(* updateHour.  The caller's heap holds the hours array (a sequence of     *)
(* references) and then its entries; an entry is a function from its       *)
(* field names to their values.                                            *)
(***************************************************************************)
\* { ...entry, [field]: value }, line 199
SetField(entry, field, value) ==
    [f \in DOMAIN entry \cup {field} |-> IF f = field THEN value ELSE entry[f]]

\* a faulty variant: the field is assigned in the entry the two arrays share
UpdateHourInPlace(h, hours, idx, field, value) ==
    LET updated == NewObject(h, h[hours])
        target  == h[hours][idx + 1]
    IN  [heap |-> Write(updated.heap, target, SetField(h[target], field, value)),
         ref  |-> updated.ref]

\* updateHour, lines 197-201; hours is the reference of the array, idx counts from 0
updateHour(h, hours, idx, field, value) ==
    LET updated == NewObject(h, h[hours])
        old     == updated.heap[updated.heap[updated.ref][idx + 1]]
        entry   == NewObject(updated.heap, SetField(old, field, value))
    IN  [heap |-> Write(entry.heap, updated.ref,
                        [entry.heap[updated.ref] EXCEPT ![idx + 1] = entry.ref]),
         ref  |-> updated.ref]

\* the entries an array names, in order
Entries(h, ref) == [i \in 1..Len(h[ref]) |-> h[h[ref][i]]]

\* the working hours of the tests, the day names transliterated
HourEntries ==
    { [day |-> "rishon", open |-> "09:00", close |-> "19:00", isOpen |-> TRUE],
      [day |-> "sheni", open |-> "09:00", close |-> "19:00", isOpen |-> TRUE],
      [day |-> "shabbat", open |-> "", close |-> "", isOpen |-> FALSE] }

HourLists == UNION {[1..n -> HourEntries] : n \in 1..MaxHours}

\* a field and a value of its kind; "note" is a field no entry has
FieldUpdates ==
    { <<"open", "10:00">>, <<"open", "09:00">>, <<"close", "20:00">>,
      <<"isOpen", TRUE>>, <<"isOpen", FALSE>>, <<"day", "shlishi">>, <<"note", "x">> }

\* the caller's objects: the array, then one object per entry
HoursHeap(hours) == <<[i \in 1..Len(hours) |-> i + 1]>> \o hours

CallUpdateHour ==
    /\ pc = "idle"
    /\ \E hours \in HourLists, update \in FieldUpdates :
         \E idx \in 0..(Len(hours) - 1) :
           LET r == updateHour(HoursHeap(hours), 1, idx, update[1], update[2])
           IN  /\ call' = "updateHour"
               /\ args' = [hours |-> hours, idx |-> idx,
                           field |-> update[1], value |-> update[2]]
               /\ heap' = r.heap
               /\ ret' = [kind |-> "value", value |-> Entries(r.heap, r.ref), ref |-> r.ref]
    /\ pc' = "done"
    /\ UNCHANGED <<tz, slots, currentMinutes, closeMinutes, startDate>>

\* phone strings: a prefix, an optional separator and a tail, each right or
\* wrong in one way, with whitespace before, inside and after
PhoneHeads ==
    { <<a, b, c>> : a \in {"0", "1"}, b \in {"5", "6"}, c \in {"0", "9", "x"} }

PhoneSeparators == { <<>>, <<"-">>, <<" ">>, <<"-", "-">>, <<"-", " ">> }

PhoneTails ==
    { <<"1", "2", "3", "4", "5", "6">>,
      <<"1", "2", "3", "4", "5", "6", "7">>,
      <<"1", "2", "3", "4", "5", "6", "7", "8">>,
      <<"1", "2", "3", "a", "5", "6", "7">>,
      <<"1", "2", "3", "-", "4", "5", "6", "7">>,
      <<"1", "2", "3", "\t", "4", "5", "6", "7">>,
      <<"1", "2", "3", " ", " ", "4", "5", "6">> }

PhonePaddings == { <<>>, <<" ">>, <<"\n">> }

PhoneInputs ==
    { Null, Undefined, Str(<<>>), Str(<<" ">>), Str(<<" ", "\t">>) }
        \cup { Str(pre \o head \o sep \o tail \o post) :
                   pre \in {<<>>, <<" ">>}, head \in PhoneHeads, sep \in PhoneSeparators,
                   tail \in PhoneTails, post \in PhonePaddings }

CallIsValidPhone ==
    /\ pc = "idle"
    /\ \E phone \in PhoneInputs :
         /\ call' = "isValidPhone"
         /\ args' = [phone |-> phone]
         /\ ret' = [kind |-> "value", value |-> isValidPhone(phone)]
    /\ pc' = "done"
    /\ UNCHANGED <<tz, slots, currentMinutes, closeMinutes, startDate, heap>>

\* the wizard's form: a field the form lacks reads as undefined
ClientNames ==
    { Undefined, Str(<<>>), Str(<<" ", " ", " ">>), Str(<<"J", "o", "h", "n">>),
      Str(<<" ", "J", "\t">>) }

ClientPhones ==
    { Undefined, Str(<<>>), Str(<<"\t", " ">>),
      Str(<<"0", "5", "0", "-", "1", "2", "3", "4", "5", "6", "7">>) }

SelectedServices == { Null, Undefined, Object }
SelectedDates    == { Null, Undefined, Object }
SelectedTimes    == { Undefined, Str(<<>>), Str(<<"1", "0", ":", "0", "0">>) }

FormStates ==
    [clientName : ClientNames, clientPhone : ClientPhones,
     selectedService : SelectedServices, selectedDate : SelectedDates,
     selectedTime : SelectedTimes]

WizardSteps == {0, 1, 2, 3, 4, 99}

CallCanProceed ==
    /\ pc = "idle"
    /\ \E step \in WizardSteps, formData \in FormStates :
         /\ call' = "canProceed"
         /\ args' = [step |-> step, formData |-> formData]
         /\ ret' = [kind |-> "value", value |-> canProceed(step, formData)]
    /\ pc' = "done"
    /\ UNCHANGED <<tz, slots, currentMinutes, closeMinutes, startDate, heap>>

\* names: two letters, the space and the tab
NameChars == {"J", "D", " ", "\t"}

NameInputs ==
    {Null, Undefined} \cup {Str(s) : s \in UNION {[1..n -> NameChars] : n \in 0..MaxNameLen}}

CallGetInitials ==
    /\ pc = "idle"
    /\ \E name \in NameInputs :
         /\ call' = "getInitials"
         /\ args' = [name |-> name]
         /\ ret' = [kind |-> "value", value |-> getInitials(name)]
    /\ pc' = "done"
    /\ UNCHANGED <<tz, slots, currentMinutes, closeMinutes, startDate, heap>>

\* isPast: a few carriers, todays at three hours of day, every day number
PastCarriers ==
    { MakeDay(2024, 2, 1) * 24, MakeDay(2024, 2, 15) * 24 + 12,
      MakeDay(2024, 2, 31) * 24 + 23, MakeDay(2024, 1, 10) * 24 + 12,
      MakeDay(2024, 11, 31) * 24 + 23 }

PastTodays ==
    { d * 24 + hr : d \in { MakeDay(2024, 2, 1), MakeDay(2024, 2, 15),
                            MakeDay(2024, 2, 31), MakeDay(2024, 1, 29) },
                    hr \in RefHours }

MonthDays == 1..31

\* generateMockAppointments: base dates at the starts, middles and ends of
\* January, February, March and December 2024
MockBaseDates ==
    { MakeDay(2024, m, d) * 24 + hr :
          m \in {0, 1, 2, 11}, d \in {1, 2, 15, 28, 29, 30, 31}, hr \in RefHours }

CallIsPast ==
    /\ pc = "idle"
    /\ \E day \in MonthDays, currentMonth \in PastCarriers, today \in PastTodays :
         /\ call' = "isPast"
         /\ args' = [day |-> day, currentMonth |-> currentMonth, today |-> today]
         /\ ret' = [kind |-> "value", value |-> isPast(day, currentMonth, today)]
         /\ heap' = IsPastHeap(<<currentMonth, today>>, day)
    /\ pc' = "done"
    /\ UNCHANGED <<tz, slots, currentMinutes, closeMinutes, startDate>>

CallGenerateMockAppointments ==
    /\ pc = "idle"
    /\ \E baseDate \in MockBaseDates :
         LET r == generateMockAppointments(<<baseDate>>, 1)
         IN  /\ call' = "generateMockAppointments"
             /\ args' = [baseDate |-> baseDate]
             /\ ret' = [kind |-> "value", value |-> r.value]
             /\ heap' = r.heap
    /\ pc' = "done"
    /\ UNCHANGED <<tz, slots, currentMinutes, closeMinutes, startDate>>

NextCalendar ==
    \/ CallIsPast
    \/ CallGenerateMockAppointments
    \/ Return

SpecCalendar == Init /\ [][NextCalendar]_vars

\* the five functions that take Date objects or appointment lists
NextObjects ==
    \/ CallNavigateDate
    \/ CallGetStatsForPeriod
    \/ CallGenerateMockAppointments
    \/ CallIsPast
    \/ CallGetAppointmentsForDate
    \/ Return

SpecObjects == Init /\ [][NextObjects]_vars

NextForms ==
    \/ CallUpdateHour
    \/ CallIsValidPhone
    \/ CallCanProceed
    \/ CallGetInitials
    \/ Return

SpecForms == Init /\ [][NextForms]_vars

(***************************************************************************)
(* Reading an HH:MM string for the claims: by position, not by split.      *)
(***************************************************************************)
IsDigit(c) == \E d \in 1..10 : Digits[d] = c

WellFormedHHMM(s) ==
    /\ Len(s) = 5
    /\ s[3] = ":"
    /\ \A i \in {1, 2, 4, 5} : IsDigit(s[i])

HourOfHHMM(s)    == 10 * DigitValue(s[1]) + DigitValue(s[2])
MinuteOfHHMM(s)  == 10 * DigitValue(s[4]) + DigitValue(s[5])
MinutesOfHHMM(s) == 60 * HourOfHHMM(s) + MinuteOfHHMM(s)

Returned(f) == pc = "done" /\ call = f /\ ret.kind = "value"

(***************************************************************************)
(* C1: generateTimeSlots(open, close, interval), when it returns, returns  *)
(* the HH:MM strings open, open + interval, open + 2*interval, ... that    *)
(* are strictly earlier than close: nothing when close is not after open,  *)
(* and ceil((close - open) / interval) of them when open < close, so the   *)
(* close time itself is never among them.                                  *)
(***************************************************************************)
C1_SlotsContract ==
    Returned("generateTimeSlots") =>
        LET open     == MinutesOfHHMM(args.openTime)
            close    == MinutesOfHHMM(args.closeTime)
            interval == args.interval
            s        == ret.value
        IN  /\ open >= close => s = <<>>
            /\ open < close =>
                  /\ interval > 0
                  /\ Len(s) = (close - open + interval - 1) \div interval
                  /\ s[1] = args.openTime
            /\ \A k \in 1..Len(s) :
                  /\ WellFormedHHMM(s[k])
                  /\ MinuteOfHHMM(s[k]) < 60
                  /\ MinutesOfHHMM(s[k]) = open + (k - 1) * interval
                  /\ MinutesOfHHMM(s[k]) < close
                  /\ s[k] # args.closeTime
            /\ \A k \in 1..(Len(s) - 1) : MinutesOfHHMM(s[k]) < MinutesOfHHMM(s[k + 1])

\* a returned sequence of several slots whose last step stops short of close
C1_Witness ==
    /\ Returned("generateTimeSlots")
    /\ Len(ret.value) >= 3
    /\ (MinutesOfHHMM(args.closeTime) - MinutesOfHHMM(args.openTime)) % args.interval # 0

(***************************************************************************)
(* C2: for every open time, close time and integer interval the loop of    *)
(* generateTimeSlots terminates with a finite sequence.  Each turn of a    *)
(* terminating loop brings currentMinutes at least one minute nearer to    *)
(* closeMinutes, so the loop never makes more than close - open turns.     *)
(***************************************************************************)
C2_LoopTerminates ==
    (call = "generateTimeSlots" /\ pc = "loop") =>
        LET open  == MinutesOfHHMM(args.openTime)
            close == MinutesOfHHMM(args.closeTime)
        IN  Len(slots) <= (IF close > open THEN close - open ELSE 0)

(***************************************************************************)
(* C3: calculateEndTime(start, duration), for a duration of zero or more   *)
(* minutes, returns HH:MM with HH = floor(E / 60) mod 24 and MM = E mod 60 *)
(* where E = start's minutes + duration, both zero-padded to two digits:   *)
(* a time of day in 00:00..23:59, with no count of the days rolled over.   *)
(***************************************************************************)
C3_EndTimeWraps ==
    Returned("calculateEndTime") =>
        LET E == MinutesOfHHMM(args.startTime) + args.duration
            r == ret.value
        IN  /\ WellFormedHHMM(r)
            /\ HourOfHHMM(r) \in 0..23
            /\ MinuteOfHHMM(r) \in 0..59
            /\ HourOfHHMM(r) = (E \div 60) % 24
            /\ MinuteOfHHMM(r) = E % 60

\* an end past midnight
C3_Witness ==
    /\ Returned("calculateEndTime")
    /\ MinutesOfHHMM(args.startTime) + args.duration > 24 * 60
    /\ HourOfHHMM(ret.value) = 1

(***************************************************************************)
(* Reading a YYYY-MM-DD string for the claims: by position, not by split.  *)
(***************************************************************************)
YearOfISO(s) ==
    1000 * DigitValue(s[1]) + 100 * DigitValue(s[2]) + 10 * DigitValue(s[3]) + DigitValue(s[4])
MonthOfISO(s) == 10 * DigitValue(s[6]) + DigitValue(s[7])
DateOfISO(s)  == 10 * DigitValue(s[9]) + DigitValue(s[10])

\* the instant a stored date stands for: its midnight, UTC
InstantOfISO(s) == MakeDay(YearOfISO(s), MonthOfISO(s) - 1, DateOfISO(s)) * 24

\* the calendar month of a Date on the host, counted in months
MonthIndex(d) == 12 * getFullYear(d) + getMonth(d)

ValidPeriods == {"today", "week", "month", "year"}

\* the indices of the appointments of the call that are in the window
IncludedIndices ==
    {i \in 1..Len(args.appointments) :
        /\ InstantOfISO(args.appointments[i].date) >= startDate
        /\ args.appointments[i].status # "cancelled"}

RECURSIVE PriceOver(_, _)
PriceOver(appointments, indices) ==
    IF indices = {} THEN 0
    ELSE LET i == CHOOSE j \in indices : TRUE
         IN  appointments[i].price + PriceOver(appointments, indices \ {i})

(***************************************************************************)
(* C4: with a valid period getStatsForPeriod returns a result, and counts  *)
(* an appointment exactly when the instant of its date is on or after the  *)
(* window start and it is not cancelled; over those, totalIncome is the    *)
(* sum of the prices, totalAppointments their number,                      *)
(* completedAppointments the number of completed ones, and avgIncome the   *)
(* integer nearest to totalIncome / totalAppointments (a half going up),   *)
(* or 0 when none is counted.                                              *)
(***************************************************************************)
C4_StatsAggregates ==
    (pc = "done" /\ call = "getStatsForPeriod" /\ args.period \in ValidPeriods) =>
        /\ ret.kind = "value"
        /\ LET r        == ret.value
               included == IncludedIndices
               n        == Cardinality(included)
               total    == PriceOver(args.appointments, included)
           IN  /\ r.totalIncome = total
               /\ r.totalAppointments = n
               /\ r.completedAppointments =
                    Cardinality({i \in included :
                                    args.appointments[i].status = "completed"})
               /\ n = 0 => r.avgIncome = 0 /\ r.totalIncome = 0
               /\ n > 0 =>
                    /\ 2 * r.avgIncome * n <= 2 * total + n
                    /\ 2 * total + n < 2 * (r.avgIncome + 1) * n

\* a call that leaves out a cancelled appointment inside the window and an
\* appointment before the window, and whose average is rounded up from a half
C4_Witness ==
    /\ Returned("getStatsForPeriod")
    /\ \E i \in 1..Len(args.appointments) :
          /\ InstantOfISO(args.appointments[i].date) >= startDate
          /\ args.appointments[i].status = "cancelled"
    /\ \E i \in 1..Len(args.appointments) :
          /\ InstantOfISO(args.appointments[i].date) < startDate
          /\ args.appointments[i].status # "cancelled"
    /\ ret.value.totalAppointments = 2
    /\ ret.value.totalIncome % 2 = 1
    /\ 2 * ret.value.avgIncome = ret.value.totalIncome + 1

(***************************************************************************)
(* C5: with a period other than today, week, month or year,                *)
(* getStatsForPeriod throws an error whose message carries the period      *)
(* given, whatever the appointments and the reference date, and returns no *)
(* result.                                                                 *)
(***************************************************************************)
C5_InvalidPeriodThrows ==
    (pc = "done" /\ call = "getStatsForPeriod" /\ args.period \notin ValidPeriods) =>
        /\ ret.kind = "error"
        /\ DOMAIN ret = {"kind", "message"}
        /\ ret.message = <<"Invalid period: ", args.period>>

C5_Witness ==
    /\ pc = "done"
    /\ call = "getStatsForPeriod"
    /\ args.period = "invalid_period"
    /\ Len(args.appointments) >= 2
    /\ ret.kind = "error"

(***************************************************************************)
(* C6: the window start is the reference date at local midnight for today, *)
(* the reference date less 7 days for week, a date in the calendar month   *)
(* just before the reference date's for month, and a date in the calendar  *)
(* year before the reference date's for year.                              *)
(***************************************************************************)
C6_WindowStart ==
    Returned("getStatsForPeriod") =>
        LET ref == args.referenceDate
        IN  /\ args.period = "today" =>
                  /\ getHours(startDate) = 0
                  /\ startDate <= ref
                  /\ ref < startDate + 24
            /\ args.period = "week" => startDate = ref - 7 * 24
            /\ args.period = "month" => MonthIndex(startDate) = MonthIndex(ref) - 1
            /\ args.period = "year" => getFullYear(startDate) = getFullYear(ref) - 1

(***************************************************************************)
(* C7: popularService is the service with the most appointments among      *)
(* those counted; of several services with the most, it is the one whose   *)
(* first counted appointment comes first in the list; it is "-" when no    *)
(* appointment is counted.                                                 *)
(***************************************************************************)
CountOfService(included, s) ==
    Cardinality({i \in included : args.appointments[i].service = s})

FirstOfService(included, s) ==
    CHOOSE i \in included :
        /\ args.appointments[i].service = s
        /\ \A j \in included : args.appointments[j].service = s => i <= j

C7_PopularService ==
    Returned("getStatsForPeriod") =>
        LET p        == ret.value.popularService
            included == IncludedIndices
            services == {args.appointments[i].service : i \in included}
        IN  /\ included = {} => p = "-"
            /\ included # {} =>
                  /\ p \in services
                  /\ \A s \in services :
                        \/ CountOfService(included, s) < CountOfService(included, p)
                        \/ s = p
                        \/ /\ CountOfService(included, s) = CountOfService(included, p)
                           /\ FirstOfService(included, p) < FirstOfService(included, s)

\* two services tie for the most; the winner is the later one in the alphabet, and
\* the other one's first appointment in the list, a cancelled one, comes before it
C7_Witness ==
    /\ Returned("getStatsForPeriod")
    /\ ret.value.popularService = "C"
    /\ CountOfService(IncludedIndices, "B") = CountOfService(IncludedIndices, "C")
    /\ args.appointments[1].service = "B"
    /\ args.appointments[1].status = "cancelled"

(***************************************************************************)
(* C8: incomeChange is 18 whenever totalIncome is greater than 0 and 0     *)
(* when totalIncome is 0, whatever the appointments counted.               *)
(***************************************************************************)
C8_IncomeChange ==
    Returned("getStatsForPeriod") =>
        ret.value.incomeChange = (IF ret.value.totalIncome > 0 THEN 18 ELSE 0)

\* an income that is not the tests' 400
C8_Witness ==
    /\ Returned("getStatsForPeriod")
    /\ ret.value.totalIncome = 285
    /\ ret.value.incomeChange = 18

(***************************************************************************)
(* C9: getAppointmentsForDate returns, in their order, exactly the         *)
(* appointments whose stored date is the calendar date of the target on    *)
(* the host, whatever the target's time of day.                            *)
(***************************************************************************)
OnCalendarDate(apt, target) ==
    /\ YearOfISO(apt.date) = getFullYear(target)
    /\ MonthOfISO(apt.date) = getMonth(target) + 1
    /\ DateOfISO(apt.date) = getDate(target)

C9_DateFilter ==
    Returned("getAppointmentsForDate") =>
        ret.value = SelectSeq(args.appointments, LAMBDA apt : OnCalendarDate(apt, args.date))

(***************************************************************************)
(* C10: navigateDate returns the date step days later in day mode, 7 *     *)
(* step days later in week mode, and otherwise a date in the calendar      *)
(* month step months after the current date's.                             *)
(***************************************************************************)
C10_Navigate ==
    Returned("navigateDate") =>
        LET cur  == args.currentDate
            step == args.direction
        IN  /\ args.viewMode = "day" => ret.value = cur + step * 24
            /\ args.viewMode = "week" => ret.value = cur + step * 7 * 24
            /\ args.viewMode \notin {"day", "week"} =>
                  MonthIndex(ret.value) = MonthIndex(cur) + step


(***************************************************************************)
(* C11: updateHour returns a new collection of the same length in which    *)
(* the entry at idx has the field set to the value and its other fields as *)
(* they were, every other entry equals the original one, and the original  *)
(* collection and its entries are unchanged after the call.                *)
(***************************************************************************)
C11_UpdateHour ==
    Returned("updateHour") =>
        LET hours  == args.hours
            i      == args.idx + 1
            result == ret.value
        IN  /\ ret.ref # 1
            /\ Len(result) = Len(hours)
            /\ DOMAIN result[i] = DOMAIN hours[i] \cup {args.field}
            /\ result[i][args.field] = args.value
            /\ \A f \in DOMAIN hours[i] \ {args.field} : result[i][f] = hours[i][f]
            /\ \A j \in 1..Len(hours) : j # i => result[j] = hours[j]
            /\ heap[1] = [j \in 1..Len(hours) |-> j + 1]
            /\ \A j \in 1..Len(hours) : heap[j + 1] = hours[j]

\* an update of a middle entry that changes the field's value
C11_Witness ==
    /\ Returned("updateHour")
    /\ Len(args.hours) = 3
    /\ args.idx = 1
    /\ args.field = "close"
    /\ args.hours[2]["close"] # args.value
    /\ ret.value[2]["close"] = args.value


(***************************************************************************)
(* C12: after a call to navigateDate, getStatsForPeriod,                   *)
(* generateMockAppointments, isPast or getAppointmentsForDate, whether it  *)
(* returned or threw, the Date objects and the appointment lists passed in *)
(* hold the values they held before the call.                              *)
(***************************************************************************)
C12_ArgumentsKept ==
    pc = "done" =>
        /\ call = "navigateDate" => heap[1] = args.currentDate
        /\ call = "getStatsForPeriod" =>
               heap[1] = args.appointments /\ heap[2] = args.referenceDate
        /\ call = "generateMockAppointments" => heap[1] = args.baseDate
        /\ call = "isPast" => heap[1] = args.currentMonth /\ heap[2] = args.today
        /\ call = "getAppointmentsForDate" =>
               heap[1] = args.appointments /\ heap[2] = args.date

\* a navigation whose result differs from its argument: the setter wrote somewhere
C12_Witness ==
    /\ Returned("navigateDate")
    /\ ret.value # args.currentDate
    /\ heap[Len(heap)] = ret.value
    /\ Len(heap) = 2


(***************************************************************************)
(* C13: isValidPhone returns a boolean for a string, null or undefined,    *)
(* and never throws: true exactly when the phone without its whitespace is *)
(* 0, 5, a digit, an optional hyphen and exactly 7 digits; false for every *)
(* other input, null, undefined and the empty string among them.           *)
(***************************************************************************)
RECURSIVE WithoutWhitespace(_)
WithoutWhitespace(s) ==
    IF s = <<>> THEN <<>>
    ELSE IF Head(s) \in {" ", "\t", "\n"} THEN WithoutWhitespace(Tail(s))
    ELSE <<Head(s)>> \o WithoutWhitespace(Tail(s))

MobileNumber(s) ==
    /\ Len(s) \in {10, 11}
    /\ s[1] = "0"
    /\ s[2] = "5"
    /\ Len(s) = 11 => s[4] = "-"
    /\ \A i \in 3..Len(s) : (Len(s) = 11 /\ i = 4) \/ IsDigit(s[i])

C13_ValidPhone ==
    (pc = "done" /\ call = "isValidPhone") =>
        /\ ret.kind = "value"
        /\ ret.value \in BOOLEAN
        /\ ret.value = (/\ args.phone.type = "string"
                        /\ MobileNumber(WithoutWhitespace(args.phone.chars)))

\* a hyphenated number with whitespace around it and inside it is accepted
C13_Witness ==
    /\ Returned("isValidPhone")
    /\ ret.value = TRUE
    /\ args.phone.type = "string"
    /\ Len(args.phone.chars) > 12
    /\ \E i \in 2..(Len(args.phone.chars) - 1) : args.phone.chars[i] = "\t"
    /\ \E i \in 2..(Len(args.phone.chars) - 1) : args.phone.chars[i] = "-"


(***************************************************************************)
(* C14: canProceed is true at step 1 exactly when clientName and           *)
(* clientPhone are both non-empty and not whitespace-only, at step 2       *)
(* exactly when selectedService is not null, at step 3 exactly when        *)
(* selectedDate and selectedTime are both truthy, and false at every other *)
(* step.                                                                   *)
(***************************************************************************)
NonBlank(v) ==
    /\ v.type = "string"
    /\ \E i \in 1..Len(v.chars) : v.chars[i] \notin {" ", "\t", "\n"}

Absent(v) == v \in {Null, Undefined, Str(<<>>)}

C14_CanProceed ==
    Returned("canProceed") =>
        LET form == args.formData
        IN  /\ ret.value \in BOOLEAN
            /\ args.step = 1 =>
                   ret.value = (NonBlank(form.clientName) /\ NonBlank(form.clientPhone))
            /\ args.step = 2 => ret.value = (form.selectedService # Null)
            /\ args.step = 3 =>
                   ret.value = (~Absent(form.selectedDate) /\ ~Absent(form.selectedTime))
            /\ args.step \notin {1, 2, 3} => ret.value = FALSE

\* step 1 refused for a whitespace-only name with everything else filled in
C14_Witness ==
    /\ Returned("canProceed")
    /\ args.step = 1
    /\ args.formData.clientName = Str(<<" ", " ", " ">>)
    /\ NonBlank(args.formData.clientPhone)
    /\ args.formData.selectedService = Object
    /\ ret.value = FALSE


(***************************************************************************)
(* C15: getInitials returns the first characters of the words of the name, *)
(* the words being what runs of whitespace separate, cut to the first two; *)
(* the empty string for an empty, null or undefined name.  A name of two   *)
(* or more words gives the first characters of its first two words,        *)
(* however the words are separated.                                        *)
(***************************************************************************)
\* the positions where a word starts: a non-whitespace character at the start
\* of the name or after a whitespace character
WordStarts(s) ==
    {i \in 1..Len(s) : /\ s[i] \notin {" ", "\t", "\n"}
                       /\ (i = 1 \/ s[i - 1] \in {" ", "\t", "\n"})}

\* the k-th smallest element of a set of numbers
Nth(S, k) == CHOOSE x \in S : Cardinality({y \in S : y < x}) = k - 1

InitialsOfWords(s) ==
    LET starts == WordStarts(s)
    IN  IF starts = {} THEN <<>>
        ELSE IF Cardinality(starts) = 1 THEN <<s[Nth(starts, 1)]>>
        ELSE <<s[Nth(starts, 1)], s[Nth(starts, 2)]>>

C15_Initials ==
    Returned("getInitials") =>
        ret.value = (IF args.name.type = "string"
                     THEN InitialsOfWords(args.name.chars) ELSE <<>>)


(***************************************************************************)
(* C16: for any base date generateMockAppointments returns exactly 15      *)
(* appointments with the ids 1..15 once each, price and duration the       *)
(* entries of {100,130,70,180} and {40,45,20,60} at the same index i mod   *)
(* 4, a status among confirmed, pending, completed and cancelled, and      *)
(* dates in groups of 3 on the days base-2 .. base+2 (base as a date in    *)
(* the form of the date field), so at least 2 distinct dates.              *)
(***************************************************************************)
MockPrices    == <<100, 130, 70, 180>>
MockDurations == <<40, 45, 20, 60>>

DaysInMonth(year, month) == DaysBeforeMonth(year, month + 1) - DaysBeforeMonth(year, month)

\* (y1, m1, d1) is an earlier calendar date than (y2, m2, d2)
EarlierDate(y1, m1, d1, y2, m2, d2) ==
    \/ y1 < y2
    \/ y1 = y2 /\ m1 < m2
    \/ y1 = y2 /\ m1 = m2 /\ d1 < d2

C17_IsPast ==
    (/\ Returned("isPast")
     /\ args.day <= DaysInMonth(getFullYear(args.currentMonth), getMonth(args.currentMonth)))
        => ret.value = EarlierDate(getFullYear(args.currentMonth),
                                   getMonth(args.currentMonth), args.day,
                                   getFullYear(args.today), getMonth(args.today),
                                   getDate(args.today))

\* today's own day, late in the day, in the carrier's month: not past
C17_Witness ==
    /\ Returned("isPast")
    /\ getFullYear(args.currentMonth) = getFullYear(args.today)
    /\ getMonth(args.currentMonth) = getMonth(args.today)
    /\ args.day = getDate(args.today)
    /\ getHours(args.today) > 12
    /\ ret.value = FALSE


(***************************************************************************)
(* C18: for an interval above 0 the slots of generateTimeSlots and         *)
(* calculateEndTime agree: the end time of each slot after the interval is *)
(* the next slot, and the end time of a slot after 0 minutes is the slot.  *)
(***************************************************************************)
C18_SlotsAndEndTime ==
    (Returned("generateTimeSlots") /\ args.interval > 0) =>
        /\ \A k \in 1..(Len(ret.value) - 1) :
             calculateEndTime(ret.value[k], args.interval) = ret.value[k + 1]
        /\ \A k \in 1..Len(ret.value) : calculateEndTime(ret.value[k], 0) = ret.value[k]

\* a day of quarter-hour slots from before 10:00 to the last minute of the day
C18_Witness ==
    /\ Returned("generateTimeSlots")
    /\ args.interval = 15
    /\ Len(ret.value) > 50
    /\ ret.value[1][1] = "0"
    /\ ret.value[Len(ret.value)][1] = "2"


(***************************************************************************)
(* C19: the windows are nested.  For the list and the reference date of a  *)
(* call, the appointments counted for today are among those counted for    *)
(* the week, those among the month's and those among the year's, so the    *)
(* totals rise from today to year; and in every result the completed       *)
(* appointments are at most the total.                                     *)
(***************************************************************************)
\* the indices of the call's appointments on or after a start, cancelled ones left out
CountedFrom(start) ==
    {i \in 1..Len(args.appointments) :
        /\ InstantOfISO(args.appointments[i].date) >= start
        /\ args.appointments[i].status # "cancelled"}

\* the start of the window of a period for the call's reference date
StartOf(period) == WindowStart(period, args.referenceDate).startDate

C19_NestedWindows ==
    Returned("getStatsForPeriod") =>
        LET today == CountedFrom(StartOf("today"))
            week  == CountedFrom(StartOf("week"))
            month == CountedFrom(StartOf("month"))
            year  == CountedFrom(StartOf("year"))
        IN  /\ startDate = StartOf(args.period)
            /\ ret.value.totalAppointments = Cardinality(CountedFrom(startDate))
            /\ today \subseteq week
            /\ week \subseteq month
            /\ month \subseteq year
            /\ Cardinality(today) <= Cardinality(week)
            /\ Cardinality(week) <= Cardinality(month)
            /\ Cardinality(month) <= Cardinality(year)
            /\ ret.value.completedAppointments <= ret.value.totalAppointments

\* a list of which each wider window counts one appointment more
C19_Witness ==
    /\ Returned("getStatsForPeriod")
    /\ args.period = "month"
    /\ Cardinality(CountedFrom(StartOf("today"))) < Cardinality(CountedFrom(StartOf("week")))
    /\ Cardinality(CountedFrom(StartOf("week"))) < ret.value.totalAppointments
    /\ ret.value.totalAppointments < Cardinality(CountedFrom(StartOf("year")))
    /\ ret.value.completedAppointments < ret.value.totalAppointments

====
